---- MODULE Spec2Model ----
(***************************************************************************)
(* uv_config: a command-line tool that validates and edits the [tool.uv]   *)
(* section of a project manifest (TOML, YAML or JSON in, TOML out).        *)
(*                                                                         *)
(* The state is the file system (one file per path) and the record of the  *)
(* last two command invocations.  Every command is one atomic action: the  *)
(* program is single-threaded and keeps nothing in memory between runs.    *)
(*                                                                         *)
(* A decoded document is a tree.  It is represented as a function from the *)
(* paths of its nodes (sequences of keys, <<>> the root) to nodes          *)
(* <<tag, value>>: tag "map", "list", "str", "bool", "int" or "null"; the  *)
(* elements of a list are its children under the keys "0", "1", ...        *)
(***************************************************************************)
EXTENDS Naturals, Sequences, FiniteSets

VARIABLES fs, last, prev, steps

vars == <<fs, last, prev, steps>>

(* ------------------------------ bounds --------------------------------- *)

\* Number of command invocations in one run of the model.
MaxSteps == 2

(* --------------------------- document trees ---------------------------- *)

MapNode == <<"map", "">>
ListNode == <<"list", "">>
NullNode == <<"null", "">>
Str(v) == <<"str", v>>
Bool(v) == <<"bool", v>>
Int(v) == <<"int", v>>

IsPrefix(p, q) == Len(p) <= Len(q) /\ SubSeq(q, 1, Len(p)) = p

Prefixes(p) == {SubSeq(p, 1, n) : n \in 0..Len(p)}

\* The tree with the nodes E (pairs <<path, node>>); a path's missing
\* ancestors are maps.
DocOf(E) ==
    LET dom == UNION {Prefixes(e[1]) : e \in E} \cup {<<>>}
    IN  [p \in dom |-> IF \E e \in E : e[1] = p
                       THEN (CHOOSE e \in E : e[1] = p)[2]
                       ELSE MapNode]

EmptyDoc == DocOf({})

Has(doc, p) == p \in DOMAIN doc

Tag(doc, p) == doc[p][1]

IsMap(doc, p) == Has(doc, p) /\ Tag(doc, p) = "map"

\* The paths of doc at or below p.
Under(doc, p) == {r \in DOMAIN doc : IsPrefix(p, r)}

\* The subtree of doc at p, as a tree of its own.
Sub(doc, p) ==
    [q \in {SubSeq(r, Len(p) + 1, Len(r)) : r \in Under(doc, p)} |-> doc[p \o q]]

\* doc with the subtree at p replaced by sub (d[k] = sub), p's parent present.
Graft(doc, p, sub) ==
    LET kept == DOMAIN doc \ Under(doc, p)
        new == {p \o q : q \in DOMAIN sub}
    IN  [r \in kept \cup new |->
            IF r \in new THEN sub[SubSeq(r, Len(p) + 1, Len(r))] ELSE doc[r]]

\* The keys of the mapping (or the indices of the list) at p.
ChildKeys(doc, p) ==
    {r[Len(p) + 1] : r \in {r \in DOMAIN doc : Len(r) = Len(p) + 1 /\ IsPrefix(p, r)}}

HasNull(doc) == \E p \in DOMAIN doc : Tag(doc, p) = "null"

\* Every key the model's documents use, in sorted order (list indices first).
KeyOrder ==
    << "0", "1", "2",
       "black", "branch", "custom-flag", "foo", "git", "index", "line-length", "managed",
       "marker", "name", "package", "path", "prerelease", "project",
       "python-preference", "python_preference", "required-version",
       "required_version", "resolution", "sources", "tool", "url", "uv",
       "version", "workspace" >>

IndexKey(n) == KeyOrder[n + 1]

\* The keys ks as a sorted sequence.
SortKeys(ks) == SelectSeq(KeyOrder, LAMBDA k : k \in ks)

(* ------------------------------ TOML text ------------------------------ *)
(* A TOML text is a sequence of lines <<kind, path, tag, value>>:          *)
(*   "table"  the header [path];  "aot"  the header [[path]];              *)
(*   "kv"     key = value, path = <<key>>, under the last header.          *)
(* A YAML or JSON text is a sequence of lines <<"node", path, tag, value>>,*)
(* one per node of the document.                                           *)

\* The j-th smallest element of the set of numbers S.
Nth(S, j) == CHOOSE i \in S : Cardinality({x \in S : x <= i}) = j

\* The header path of the tree path q: a header does not name list indices.
Strip(doc, q) ==
    LET idx == {i \in 1..Len(q) : Tag(doc, SubSeq(q, 1, i - 1)) # "list"}
    IN  [j \in 1..Cardinality(idx) |-> q[Nth(idx, j)]]

\* A value written on its key's line: a scalar or an empty array.
IsInline(doc, q) ==
    \/ Tag(doc, q) \notin {"map", "list"}
    \/ Tag(doc, q) = "list" /\ ChildKeys(doc, q) = {}

\* A table whose header tomlkit leaves out: it holds only tables.
IsSuperTable(doc, q) ==
    /\ ChildKeys(doc, q) # {}
    /\ \A k \in ChildKeys(doc, q) : ~IsInline(doc, q \o <<k>>)

RECURSIVE Body(_, _), Section(_, _), Sections(_, _, _)

\* The lines of the mapping at p: its own keys first, then its tables, each
\* group in sorted order.
Body(doc, p) ==
    LET ks == SortKeys(ChildKeys(doc, p))
        scal == SelectSeq(ks, LAMBDA k : IsInline(doc, p \o <<k>>))
        tabs == SelectSeq(ks, LAMBDA k : ~IsInline(doc, p \o <<k>>))
    IN  [i \in 1..Len(scal) |->
            <<"kv", <<scal[i]>>, doc[p \o <<scal[i]>>][1], doc[p \o <<scal[i]>>][2]>>]
        \o Sections(doc, p, tabs)

Sections(doc, p, ks) ==
    IF ks = <<>> THEN <<>>
    ELSE Section(doc, p \o <<Head(ks)>>) \o Sections(doc, p, Tail(ks))

\* The lines of the table, or of the array of tables, at q.
Section(doc, q) ==
    IF Tag(doc, q) = "map"
    THEN (IF IsSuperTable(doc, q) THEN <<>> ELSE << <<"table", Strip(doc, q), "", "">> >>)
         \o Body(doc, q)
    ELSE LET elems == SortKeys(ChildKeys(doc, q))
             RECURSIVE Elems(_)
             Elems(es) ==
                 IF es = <<>> THEN <<>>
                 ELSE << <<"aot", Strip(doc, q), "", "">> >>
                      \o Body(doc, q \o <<Head(es)>>) \o Elems(Tail(es))
         IN  Elems(elems)

\* tomlkit.dumps of the document holding data: TOML has no null.
TomlDumps(data) ==
    IF HasNull(data) THEN [ok |-> FALSE, text |-> <<>>]
    ELSE [ok |-> TRUE, text |-> Body(data, <<>>)]

\* doc with p and its missing ancestors present, as maps.
Ensure(doc, p) ==
    [r \in DOMAIN doc \cup Prefixes(p) |-> IF r \in DOMAIN doc THEN doc[r] ELSE MapNode]

\* The tree path a header path names: through a list, its last element.
RECURSIVE Resolve(_, _, _)
Resolve(doc, hp, at) ==
    IF hp = <<>> THEN at
    ELSE LET a == at \o <<Head(hp)>>
             b == IF Has(doc, a) /\ Tag(doc, a) = "list" /\ ChildKeys(doc, a) # {}
                  THEN a \o <<IndexKey(Cardinality(ChildKeys(doc, a)) - 1)>>
                  ELSE a
         IN  Resolve(doc, Tail(hp), b)

\* One line read by the TOML parser: st is [ok, doc, cur], cur the open table.
TomlLine(st, line) ==
    CASE line[1] = "table" ->
            LET q == Resolve(st.doc, line[2], <<>>)
            IN  [st EXCEPT !.doc = Ensure(st.doc, q), !.cur = q]
      [] line[1] = "aot" ->
            LET hp == line[2]
                lp == Resolve(st.doc, SubSeq(hp, 1, Len(hp) - 1), <<>>) \o <<hp[Len(hp)]>>
                d1 == IF Has(st.doc, lp) THEN st.doc
                      ELSE Graft(Ensure(st.doc, SubSeq(lp, 1, Len(lp) - 1)), lp, DocOf({<<<<>>, ListNode>>}))
                q == lp \o <<IndexKey(Cardinality(ChildKeys(d1, lp)))>>
            IN  [st EXCEPT !.doc = Graft(d1, q, EmptyDoc), !.cur = q]
      [] line[1] = "kv" ->
            [st EXCEPT !.doc = Graft(st.doc, st.cur \o line[2], DocOf({<<<<>>, <<line[3], line[4]>> >>}))]
      [] OTHER -> [st EXCEPT !.ok = FALSE]

RECURSIVE ParseLines(_, _, _)
ParseLines(text, i, st) ==
    IF i > Len(text) \/ ~st.ok THEN st
    ELSE ParseLines(text, i + 1, TomlLine(st, text[i]))

\* tomlkit.parse of a text.
TomlParse(text) ==
    LET st == ParseLines(text, 1, [ok |-> TRUE, doc |-> EmptyDoc, cur |-> <<>>])
    IN  [ok |-> st.ok, doc |-> st.doc]

\* The YAML (safe mode) and JSON parsers: the text of a document lists its nodes.
NodeParse(text) ==
    IF \E i \in 1..Len(text) : text[i][1] # "node"
    THEN [ok |-> FALSE, doc |-> EmptyDoc]
    ELSE [ok |-> TRUE,
          doc |-> DocOf({<<text[i][2], <<text[i][3], text[i][4]>> >> : i \in 1..Len(text)})]

\* The YAML or JSON text of a document (how the model's input files are written).
RECURSIVE SeqOfSet(_)
SeqOfSet(S) ==
    IF S = {} THEN <<>>
    ELSE LET x == CHOOSE x \in S : TRUE IN <<x>> \o SeqOfSet(S \ {x})

NodeText(doc) ==
    LET ps == SeqOfSet(DOMAIN doc \ {<<>>})
    IN  [i \in 1..Len(ps) |-> <<"node", ps[i], doc[ps[i]][1], doc[ps[i]][2]>>]

(* ------------------------------- schema -------------------------------- *)

ResolutionValues == {"highest", "lowest", "lowest-direct"}

PrereleaseValues == {"allow", "disallow", "if-necessary", "explicit"}

PythonPreferenceValues == {"managed", "system", "only-managed", "only-system"}

\* The strings pydantic's lax mode reads as a boolean.
BoolStrings == {"0", "1", "true", "false", "yes", "no", "on", "off", "t", "f", "y", "n"}

BoolOk(node) ==
    \/ node[1] = "bool"
    \/ node[1] = "str" /\ node[2] \in BoolStrings
    \/ node[1] = "int" /\ node[2] \in {"0", "1"}

StrOk(node) == node[1] = "str"

\* Optional[str] and Optional[bool] fields of a mapping e.
OptStr(e, k) == Has(e, <<k>>) => (StrOk(e[<<k>>]) \/ e[<<k>>] = NullNode)

OptBool(e, k) == Has(e, <<k>>) => (BoolOk(e[<<k>>]) \/ e[<<k>>] = NullNode)

ReqStr(e, k) == Has(e, <<k>>) /\ StrOk(e[<<k>>])

GitSource(e) ==
    /\ ReqStr(e, "git")
    /\ \A k \in {"tag", "branch", "rev", "subdirectory", "marker"} : OptStr(e, k)

UrlSource(e) == ReqStr(e, "url") /\ OptStr(e, "marker")

PathSource(e) ==
    /\ ReqStr(e, "path")
    /\ OptBool(e, "editable")
    /\ OptBool(e, "package")
    /\ OptStr(e, "marker")

WorkspaceSource(e) ==
    /\ Has(e, <<"workspace">>) => BoolOk(e[<<"workspace">>])
    /\ OptStr(e, "marker")

IndexSource(e) == ReqStr(e, "index") /\ OptStr(e, "extra") /\ OptStr(e, "marker")

\* One shape of the union accepts the mapping e (keys a shape does not
\* declare are ignored).
EntryOk(e) ==
    /\ e[<<>>] = MapNode
    /\ GitSource(e) \/ UrlSource(e) \/ PathSource(e) \/ WorkspaceSource(e) \/ IndexSource(e)

\* Source: one entry or a list of entries.
Source(e) ==
    \/ EntryOk(e)
    \/ /\ e[<<>>] = ListNode
       /\ \A i \in ChildKeys(e, <<>>) : EntryOk(Sub(e, <<i>>))

\* The declared fields of ToolUv: name, alias (the name when it has none), type.
ToolUvFields ==
    { [name |-> "package", alias |-> "package", type |-> "bool"],
      [name |-> "managed", alias |-> "managed", type |-> "bool"],
      [name |-> "required_version", alias |-> "required-version", type |-> "str"],
      [name |-> "resolution", alias |-> "resolution", type |-> "Resolution"],
      [name |-> "prerelease", alias |-> "prerelease", type |-> "Prerelease"],
      [name |-> "python_preference", alias |-> "python-preference", type |-> "PythonPreference"],
      [name |-> "sources", alias |-> "sources", type |-> "sources"] }

FieldNamed(n) == CHOOSE f \in ToolUvFields : f.name = n

\* The key of cfg a field is read from (populate_by_name: the alias first,
\* then the name), "" when cfg has neither.
LookupKey(cfg, f) ==
    IF Has(cfg, <<f.alias>>) THEN f.alias
    ELSE IF Has(cfg, <<f.name>>) THEN f.name
    ELSE ""

\* The value of a field given to the model; every field defaults to None.
FieldValue(cfg, f) ==
    IF LookupKey(cfg, f) = "" THEN NullNode ELSE cfg[<<LookupKey(cfg, f)>>]

FieldOk(cfg, f) ==
    LET v == FieldValue(cfg, f)
    IN  \/ v = NullNode
        \/ CASE f.type = "bool" -> BoolOk(v)
             [] f.type = "str" -> StrOk(v)
             [] f.type = "Resolution" -> v[1] = "str" /\ v[2] \in ResolutionValues
             [] f.type = "Prerelease" -> v[1] = "str" /\ v[2] \in PrereleaseValues
             [] f.type = "PythonPreference" -> v[1] = "str" /\ v[2] \in PythonPreferenceValues
             [] f.type = "sources" ->
                   /\ v = MapNode
                   /\ \A n \in ChildKeys(cfg, <<LookupKey(cfg, f)>>) :
                         Source(Sub(cfg, <<LookupKey(cfg, f), n>>))

\* ToolUv(**cfg) does not raise: every declared field validates; any other
\* key is kept as an extra (extra="allow").
ToolUv(cfg) == \A f \in ToolUvFields : FieldOk(cfg, f)

\* The value the validated model holds for a scalar field (lax coercion of a
\* boolean; an enum as its string value).
Exposed(cfg, f) ==
    LET v == FieldValue(cfg, f)
    IN  IF f.type = "bool" /\ v # NullNode
        THEN Bool(IF v[2] \in {"1", "true", "yes", "on", "t", "y"} THEN "true" ELSE "false")
        ELSE v

\* model_dump(by_alias=True) without exclude_none: every declared field is
\* dumped, an unset one as null.
ModelDumpKeepNone(cfg) ==
    LET used == {LookupKey(cfg, f) : f \in ToolUvFields}
        extras == ChildKeys(cfg, <<>>) \ used
        OfField(f) ==
            IF FieldValue(cfg, f) = NullNode THEN {<<<<f.alias>>, NullNode>>}
            ELSE LET sub == Sub(cfg, <<LookupKey(cfg, f)>>)
                 IN  {<<<<f.alias>> \o q, IF q = <<>> THEN Exposed(cfg, f) ELSE sub[q]>> : q \in DOMAIN sub}
        OfExtra(k) == {<<<<k>> \o q, cfg[<<k>> \o q]>> : q \in DOMAIN Sub(cfg, <<k>>)}
    IN  DocOf(UNION {OfField(f) : f \in ToolUvFields} \cup UNION {OfExtra(k) : k \in extras})

\* model_dump(exclude_none=True, by_alias=True) of ToolUv(**cfg): the fields
\* that are not None under their aliases, then the extras.
ModelDump(cfg) ==
    LET set == {f \in ToolUvFields : FieldValue(cfg, f) # NullNode}
        used == {LookupKey(cfg, f) : f \in ToolUvFields}
        extras == {k \in ChildKeys(cfg, <<>>) \ used : cfg[<<k>>] # NullNode}
        OfField(f) ==
            LET sub == Sub(cfg, <<LookupKey(cfg, f)>>)
            IN  {<<<<f.alias>> \o q, IF q = <<>> THEN Exposed(cfg, f) ELSE sub[q]>> : q \in DOMAIN sub}
        OfExtra(k) == {<<<<k>> \o q, cfg[<<k>> \o q]>> : q \in DOMAIN Sub(cfg, <<k>>)}
    IN  DocOf(UNION {OfField(f) : f \in set} \cup UNION {OfExtra(k) : k \in extras})

\* Pyproject(**data) does not raise: tool is a mapping of mappings
\* (Dict[str, dict]); other top-level keys are ignored.
Pyproject(data) ==
    /\ IsMap(data, <<"tool">>)
    /\ \A k \in ChildKeys(data, <<"tool">>) : Tag(data, <<"tool", k>>) = "map"

UvPath == <<"tool", "uv">>

\* Pyproject.uv: "missing" (the ValueError), "invalid" (ToolUv raises) or "ok".
PyprojectUv(data) ==
    IF ~Has(data, UvPath) THEN "missing"
    ELSE IF ~ToolUv(Sub(data, UvPath)) THEN "invalid"
    ELSE "ok"

\* str() of a field of the validated model, as an f-string prints it.
Shown(cfg, n) ==
    LET v == Exposed(cfg, FieldNamed(n))
    IN  IF v = NullNode THEN "None" ELSE v[2]

(* ----------------------------- file system ----------------------------- *)

\* A path is its stem and its suffix (pathlib's Path.suffix).
Path(stem, suffix) == [stem |-> stem, suffix |-> suffix]

Suffixes == {".toml", ".TOML", ".yaml", ".json"}

Paths == {Path("pyproject", s) : s \in Suffixes}

NoPath == Path("", "")

\* str.lower() on a suffix.
Lower(s) == IF s = ".TOML" THEN ".toml" ELSE s

\* Path.with_suffix.
WithSuffix(path, s) == Path(path.stem, s)

NoFile == [exists |-> FALSE, text |-> <<>>]

File(text) == [exists |-> TRUE, text |-> text]

\* load_any: the parser is chosen by the lower-cased suffix; a missing file,
\* a text the parser rejects and any other suffix raise.
LoadAny(fsys, path) ==
    LET suffix == Lower(path.suffix)
        bad == [ok |-> FALSE, doc |-> EmptyDoc]
    IN  IF suffix = ".toml"
        THEN (IF fsys[path].exists THEN TomlParse(fsys[path].text) ELSE bad)
        ELSE IF suffix \in {".yml", ".yaml"}
        THEN (IF fsys[path].exists THEN NodeParse(fsys[path].text) ELSE bad)
        ELSE IF suffix = ".json"
        THEN (IF fsys[path].exists THEN NodeParse(fsys[path].text) ELSE bad)
        ELSE bad

\* dump_toml: the text is produced first and the file written last, so a
\* document TOML cannot hold leaves the file system as it was.
DumpToml(fsys, data, dest) ==
    LET d == TomlDumps(data)
    IN  [ok |-> d.ok, fs |-> IF d.ok THEN [fsys EXCEPT ![dest] = File(d.text)] ELSE fsys]

(* ------------------------------ commands ------------------------------- *)

\* The record of one invocation: its arguments, what it printed on stdout
\* (out) and stderr (err), its exit status, the file it wrote (target, NoPath
\* when none), whether schema validation failed in it, and the file system
\* it started from.
Invocation(cmd, path, dest, key, value, flag) ==
    [cmd |-> cmd, path |-> path, dest |-> dest, key |-> key, value |-> value,
     flag |-> flag, out |-> <<>>, err |-> <<>>, exit |-> 0, target |-> NoPath,
     invalid |-> FALSE, pre |-> fs]

NoInvocation ==
    [cmd |-> "none", path |-> NoPath, dest |-> NoPath, key |-> "", value |-> "",
     flag |-> FALSE, out |-> <<>>, err |-> <<>>, exit |-> 0, target |-> NoPath,
     invalid |-> FALSE, pre |-> [p \in Paths |-> NoFile]]

\* An uncaught exception: the traceback on stderr, exit status 1.
Crash(inv) == [inv EXCEPT !.err = <<"traceback">>, !.exit = 1]

Finish(inv, fsys) ==
    /\ fs' = fsys
    /\ prev' = [last EXCEPT !.pre = NoInvocation.pre]
    /\ last' = inv
    /\ steps' = steps + 1

\* What validate prints and returns for the file at path.
ValidateRun(fsys, path) ==
    LET ld == LoadAny(fsys, path)
        failed == [out |-> <<>>, err |-> <<"error">>, exit |-> 1, invalid |-> TRUE]
    IN  IF ~ld.ok THEN [failed EXCEPT !.invalid = FALSE]
        ELSE IF ~Pyproject(ld.doc) THEN failed
        ELSE IF PyprojectUv(ld.doc) # "ok"
        THEN [failed EXCEPT !.out = << <<"valid", "">> >>]
        ELSE [out |-> << <<"valid", "">>, <<"resolution", Shown(Sub(ld.doc, UvPath), "resolution")>> >>,
              err |-> <<>>, exit |-> 0, invalid |-> FALSE]

Validate(path) ==
    LET inv == Invocation("validate", path, NoPath, "", "", FALSE)
        r == ValidateRun(fs, path)
    IN  Finish([inv EXCEPT !.out = r.out, !.err = r.err, !.exit = r.exit,
                           !.invalid = r.invalid], fs)

\* data["tool"]["uv"] = {key: value}: the assignment replacing the section
\* instead of one key of it.
AssignReplace(data, key, value) ==
    IF Has(data, <<"tool">>) /\ ~IsMap(data, <<"tool">>)
    THEN [ok |-> FALSE, data |-> data]
    ELSE [ok |-> TRUE,
          data |-> Graft(Ensure(data, <<"tool">>), UvPath, DocOf({<<<<key>>, Str(value)>>}))]

\* data.setdefault("tool", {}).setdefault("uv", {})[key] = value: raises when
\* tool or tool.uv is present and is not a mapping.
Assign(data, key, value) ==
    IF \/ Has(data, <<"tool">>) /\ ~IsMap(data, <<"tool">>)
       \/ Has(data, UvPath) /\ ~IsMap(data, UvPath)
    THEN [ok |-> FALSE, data |-> data]
    ELSE [ok |-> TRUE,
          data |-> Graft(Ensure(data, UvPath), UvPath \o <<key>>, DocOf({<<<<>>, Str(value)>>}))]

\* set writing the input path whatever its suffix.
SetTargetSame(path) == path

\* The file set writes: the input when its suffix is exactly ".toml".
SetTarget(path) == IF path.suffix = ".toml" THEN path ELSE WithSuffix(path, ".toml")

\* set with the write placed before the validation.
SetWriteFirst(path, key, value) ==
    LET inv == Invocation("set", path, NoPath, key, value, FALSE)
        ld == LoadAny(fs, path)
        as == Assign(ld.doc, key, value)
        w == DumpToml(fs, as.data, SetTarget(path))
    IN  IF ~ld.ok \/ ~as.ok THEN Finish(Crash(inv), fs)
        ELSE IF ~w.ok THEN Finish(Crash(inv), fs)
        ELSE IF ~ToolUv(Sub(as.data, UvPath))
        THEN Finish([Crash(inv) EXCEPT !.invalid = TRUE], w.fs)
        ELSE Finish([inv EXCEPT !.out = << <<"set", "">> >>, !.target = SetTarget(path)], w.fs)

Set(path, key, value) ==
    LET inv == Invocation("set", path, NoPath, key, value, FALSE)
        ld == LoadAny(fs, path)
        as == Assign(ld.doc, key, value)
        w == DumpToml(fs, as.data, SetTarget(path))
    IN  IF ~ld.ok \/ ~as.ok THEN Finish(Crash(inv), fs)
        ELSE IF ~ToolUv(Sub(as.data, UvPath))
        THEN Finish([Crash(inv) EXCEPT !.invalid = TRUE], fs)
        ELSE IF ~w.ok THEN Finish(Crash(inv), fs)
        ELSE Finish([inv EXCEPT !.out = << <<"set", "">> >>, !.target = SetTarget(path)], w.fs)

\* ToolUv(package=True, resolution="highest").model_dump(exclude_none=True, by_alias=True)
Defaults ==
    ModelDump(DocOf({<<<<"package">>, Bool("true")>>, <<<<"resolution">>, Str("highest")>>}))

\* {"tool": {"uv": cfg}}
UnderToolUv(cfg) == Graft(Ensure(EmptyDoc, UvPath), UvPath, cfg)

InitCmd(dest) ==
    LET inv == Invocation("init", NoPath, dest, "", "", FALSE)
        w == DumpToml(fs, UnderToolUv(Defaults), dest)
    IN  IF ~w.ok THEN Finish(Crash(inv), fs)
        ELSE Finish([inv EXCEPT !.out = << <<"created", "">> >>, !.target = dest], w.fs)

\* settings.get("tool", {}).get("uv", {}) or {} on the settings Dynaconf loads
\* from one file: with nothing loaded before it there is nothing to merge
\* into, so merge_enabled leaves the loaded values as they are.
Overrides(settings, merge_enabled) ==
    IF ~Has(settings, <<"tool">>) THEN [ok |-> TRUE, cfg |-> EmptyDoc]
    ELSE IF ~IsMap(settings, <<"tool">>) THEN [ok |-> FALSE, cfg |-> EmptyDoc]
    ELSE IF ~Has(settings, UvPath) \/ settings[UvPath] = NullNode
    THEN [ok |-> TRUE, cfg |-> EmptyDoc]
    ELSE IF ~IsMap(settings, UvPath) THEN [ok |-> FALSE, cfg |-> EmptyDoc]
    ELSE [ok |-> TRUE, cfg |-> Sub(settings, UvPath)]

\* {**b, **a}: the operands of the merge exchanged, so that a's values win.
DictMergeSwapped(a, b) ==
    LET keep == {p \in DOMAIN b : p = <<>> \/ p[1] \notin ChildKeys(a, <<>>)}
    IN  [p \in keep \cup DOMAIN a |-> IF p \in DOMAIN a /\ p # <<>> THEN a[p] ELSE b[p]]

\* {**a, **b}: b's value for every key b has, a's for the others.
DictMerge(a, b) ==
    LET keep == {p \in DOMAIN a : p = <<>> \/ p[1] \notin ChildKeys(b, <<>>)}
    IN  [p \in keep \cup DOMAIN b |-> IF p \in DOMAIN b /\ p # <<>> THEN b[p] ELSE a[p]]

Merge(yaml_file, toml_file, merge_enabled) ==
    LET inv == Invocation("merge", yaml_file, toml_file, "", "", merge_enabled)
        ld == LoadAny(fs, yaml_file)
        ov == Overrides(ld.doc, merge_enabled)
        merged == DictMerge(Defaults, ov.cfg)
        w == DumpToml(fs, UnderToolUv(merged), toml_file)
    IN  IF ~fs[yaml_file].exists
        THEN Finish([inv EXCEPT !.err = <<"usage">>, !.exit = 2], fs)
        ELSE IF ~ld.ok \/ ~ov.ok THEN Finish(Crash(inv), fs)
        ELSE IF ~ToolUv(merged) THEN Finish([Crash(inv) EXCEPT !.invalid = TRUE], fs)
        ELSE IF ~w.ok THEN Finish(Crash(inv), fs)
        ELSE Finish([inv EXCEPT !.out = << <<"written", "">> >>, !.target = toml_file], w.fs)

(* ------------------------- inputs of the model ------------------------- *)

SrcFoo == <<"tool", "uv", "sources", "foo">>

DocEmpty == EmptyDoc

DocBase == DocOf({<<UvPath, MapNode>>})

DocFull ==
    DocOf({ <<<<"project", "name">>, Str("demo")>>,
            <<<<"tool", "black", "line-length">>, Int("88")>>,
            <<UvPath \o <<"resolution">>, Str("highest")>>,
            <<UvPath \o <<"custom-flag">>, Str("on")>> })

DocAlias == DocOf({<<UvPath \o <<"required-version">>, Str("0.4")>>})

DocBadEnum == DocOf({<<UvPath \o <<"resolution">>, Str("fastest")>>})

DocNoUv == DocOf({<<<<"tool", "black", "line-length">>, Int("88")>>})

DocToolScalar == DocOf({<<UvPath, MapNode>>, <<<<"tool", "version">>, Str("1")>>})

DocSrcGit == DocOf({<<SrcFoo \o <<"git">>, Str("u")>>})

DocSrcEmpty == DocOf({<<SrcFoo, MapNode>>})

DocSrcTwo == DocOf({<<SrcFoo \o <<"git">>, Str("u")>>, <<SrcFoo \o <<"url">>, Str("v")>>})

DocSrcBad == DocOf({<<SrcFoo \o <<"workspace">>, Str("maybe")>>})

DocSrcList ==
    DocOf({ <<SrcFoo, ListNode>>,
            <<SrcFoo \o <<"0", "git">>, Str("u")>>,
            <<SrcFoo \o <<"1", "index">>, Str("pypi")>> })

DocNull == DocOf({<<UvPath \o <<"managed">>, NullNode>>, <<UvPath \o <<"package">>, Bool("false")>>})

DocOverride ==
    DocOf({ <<<<"project", "name">>, Str("demo")>>,
            <<UvPath \o <<"resolution">>, Str("lowest")>>,
            <<SrcFoo \o <<"git">>, Str("u")>> })

DocOverrideBad == DocOf({<<UvPath \o <<"resolution">>, Str("fastest")>>})

\* The file a run starts from: <<suffix, document>>.
InitialFiles ==
    ({".toml"} \X {DocEmpty, DocBase, DocFull, DocAlias, DocBadEnum, DocNoUv, DocToolScalar,
                   DocSrcGit, DocSrcEmpty, DocSrcTwo, DocSrcBad, DocSrcList})
    \cup ({".TOML"} \X {DocFull, DocAlias})
    \cup ({".yaml"} \X {DocOverride, DocOverrideBad, DocNull})
    \cup ({".json"} \X {DocFull, DocNull})

\* The text of a document in the format of a suffix.
TextFor(suffix, doc) == IF Lower(suffix) = ".toml" THEN TomlDumps(doc).text ELSE NodeText(doc)

\* The assignments set is asked for: <<key, value>>.
Assignments ==
    { <<"resolution", "lowest">>, <<"resolution", "lowest-direct">>, <<"resolution", "fastest">>,
      <<"package", "true">>, <<"package", "maybe">>, <<"managed", "false">>,
      <<"required-version", "0.5">>, <<"required_version", "0.6">>,
      <<"prerelease", "if-necessary">>,
      <<"python-preference", "system">>, <<"python_preference", "only-managed">>,
      <<"custom-flag", "off">>, <<"sources", "x">> }

(* ---------------------------- specification ---------------------------- *)

Init ==
    /\ \E f \in InitialFiles :
          fs = [p \in Paths |-> IF p.suffix = f[1] THEN File(TextFor(f[1], f[2])) ELSE NoFile]
    /\ last = NoInvocation
    /\ prev = NoInvocation
    /\ steps = 0

DoValidate == steps < MaxSteps /\ \E path \in Paths : Validate(path)

\* set is asked for every assignment on the TOML file and for a few on each
\* of the other files.
SetInputs ==
    ({Path("pyproject", ".toml")} \X Assignments)
    \cup ({Path("pyproject", s) : s \in {".TOML", ".yaml", ".json"}}
          \X {<<"resolution", "lowest">>, <<"resolution", "fastest">>, <<"required_version", "0.6">>})

DoSet == steps < MaxSteps /\ \E i \in SetInputs : Set(i[1], i[2][1], i[2][2])

DoInit ==
    /\ steps < MaxSteps
    /\ \E dest \in {Path("pyproject", ".toml"), Path("pyproject", ".yaml")} : InitCmd(dest)

DoMerge ==
    /\ steps < MaxSteps
    /\ \E yaml_file \in {Path("pyproject", ".yaml")},
          toml_file \in {Path("pyproject", ".toml")},
          merge_enabled \in BOOLEAN : Merge(yaml_file, toml_file, merge_enabled)

Next == DoValidate \/ DoSet \/ DoInit \/ DoMerge

Spec == Init /\ [][Next]_vars

(* ------------------------------- claims -------------------------------- *)

\* The document the last command loaded from its path argument.
LoadedDoc == LoadAny(last.pre, last.path).doc

\* The document in the file the last command wrote.
WrittenDoc == TomlParse(fs[last.target].text).doc

SetDone == last.cmd = "set" /\ last.exit = 0

\* C1: when schema validation fails inside set or merge, the invocation
\* creates and modifies no file: the file system is the one it started from.
C1_InvalidWritesNothing ==
    (last.cmd \in {"set", "merge"} /\ last.invalid) =>
        /\ fs = last.pre
        /\ last.target = NoPath
        /\ last.exit # 0

\* C1 witness: set(pyproject.yaml, "resolution", "fastest") failed validation
\* on an existing YAML file whose .toml sibling does not exist.
C1_Witness ==
    /\ last.cmd = "set" /\ last.invalid
    /\ last.key = "resolution" /\ last.value = "fastest"
    /\ last.path.suffix = ".yaml" /\ last.pre[last.path].exists
    /\ ~last.pre[WithSuffix(last.path, ".toml")].exists

\* The keys that address a declared scalar or enum field, and the strings
\* valid for each.
ScalarKeys ==
    UNION {{f.name, f.alias} : f \in {f \in ToolUvFields : f.type # "sources"}}

ValidFor(key, value) ==
    \E f \in ToolUvFields :
        /\ key \in {f.name, f.alias}
        /\ FieldOk(DocOf({<<<<key>>, Str(value)>>}), f)
        /\ f.type # "sources"

\* validate has just run on the file a successful set of a valid scalar or
\* enum value wrote.
ValidateAfterSet ==
    /\ last.cmd = "validate"
    /\ prev.cmd = "set" /\ prev.exit = 0
    /\ last.path = prev.target
    /\ prev.key \in ScalarKeys /\ ValidFor(prev.key, prev.value)

Reports(value) == \E i \in 1..Len(last.out) : last.out[i][2] = value

C3_ValidateOneOutcome ==
    last.cmd = "validate" =>
        \/ /\ last.exit = 0 /\ last.err = <<>>
           /\ Len(last.out) = 2 /\ last.out[1][1] = "valid" /\ last.out[2][1] = "resolution"
        \/ /\ last.exit = 1 /\ last.err # <<>>
           /\ last.out = <<>>

Discriminators == {"git", "url", "path", "workspace", "index"}

\* The sources entries of a document: the mappings under tool.uv.sources.<name>
\* and the elements of the lists there.
SourceEntries(doc) ==
    LET src == UvPath \o <<"sources">>
        named == {src \o <<n>> : n \in ChildKeys(doc, src)}
    IN  {q \in named : Tag(doc, q) = "map"}
        \cup UNION {{q \o <<i>> : i \in ChildKeys(doc, q)} : q \in {q \in named : Tag(doc, q) = "list"}}

\* C4: a document validate accepts has exactly one discriminator key in each
\* of its sources entries.
C4_OneDiscriminator ==
    (last.cmd = "validate" /\ last.exit = 0) =>
        \A q \in SourceEntries(LoadedDoc) :
            Cardinality(ChildKeys(LoadedDoc, q) \cap Discriminators) = 1

\* C5: a successful set leaves every key of the loaded document other than
\* tool.uv[key] in the written document with its value, adds no key but
\* tool.uv[key] (and the tool and tool.uv tables that hold it), and
\* tool.uv[key] is the string given.
C5_SetKeepsOtherKeys ==
    SetDone =>
        LET kp == UvPath \o <<last.key>>
        IN  /\ \A p \in DOMAIN LoadedDoc :
                  ~IsPrefix(kp, p) => (p \in DOMAIN WrittenDoc /\ WrittenDoc[p] = LoadedDoc[p])
            /\ \A p \in DOMAIN WrittenDoc :
                  (~IsPrefix(kp, p) /\ p \notin Prefixes(UvPath)) => p \in DOMAIN LoadedDoc
            /\ Sub(WrittenDoc, kp) = DocOf({<<<<>>, Str(last.value)>>})

\* C5 witness: set of a declared key succeeded on a document with a
\* top-level key, another tool section and an undeclared key in tool.uv.
C5_Witness ==
    /\ SetDone
    /\ last.key = "package"
    /\ Has(LoadedDoc, <<"project", "name">>)
    /\ Has(LoadedDoc, <<"tool", "black", "line-length">>)
    /\ Has(LoadedDoc, UvPath \o <<"custom-flag">>)

\* C6: set writes the input path when load_any read the input as TOML, and
\* otherwise the .toml sibling, leaving the input file as it was.
C6_SetWritesLoadedToml ==
    SetDone =>
        IF Lower(last.path.suffix) = ".toml"
        THEN last.target = last.path
        ELSE /\ last.target = WithSuffix(last.path, ".toml")
             /\ fs[last.path] = last.pre[last.path]

\* The tool.uv mapping of the YAML file merge read (empty when it has none).
YamlOverrides ==
    IF IsMap(LoadedDoc, UvPath) THEN Sub(LoadedDoc, UvPath) ELSE EmptyDoc

\* C7: the tool.uv that merge writes has, for every top-level key of the
\* YAML overrides, the override's whole value; for package and resolution
\* where the overrides lack them, true and "highest"; and no other key.
C7_MergeOverlay ==
    (last.cmd = "merge" /\ last.exit = 0) =>
        LET w == Sub(WrittenDoc, UvPath)
        IN  /\ \A k \in ChildKeys(YamlOverrides, <<>>) : Sub(w, <<k>>) = Sub(YamlOverrides, <<k>>)
            /\ "package" \notin ChildKeys(YamlOverrides, <<>>) => Sub(w, <<"package">>) = DocOf({<<<<>>, Bool("true")>>})
            /\ "resolution" \notin ChildKeys(YamlOverrides, <<>>) => Sub(w, <<"resolution">>) = DocOf({<<<<>>, Str("highest")>>})
            /\ ChildKeys(w, <<>>) = ChildKeys(YamlOverrides, <<>>) \cup {"package", "resolution"}
            /\ ChildKeys(WrittenDoc, <<>>) = {"tool"} /\ ChildKeys(WrittenDoc, <<"tool">>) = {"uv"}

\* C7 witness: merge with merge_enabled disabled wrote resolution "lowest"
\* and the nested sources override over the defaults.
C7_Witness ==
    /\ last.cmd = "merge" /\ last.exit = 0 /\ ~last.flag
    /\ YamlOverrides[<<"resolution">>] = Str("lowest")
    /\ Has(YamlOverrides, <<"sources", "foo", "git">>)
    /\ WrittenDoc[UvPath \o <<"resolution">>] = Str("lowest")
    /\ WrittenDoc[UvPath \o <<"package">>] = Bool("true")

\* C8: init always succeeds and the document it writes is exactly
\* {tool: {uv: {package: true, resolution: "highest"}}}.
C8_InitWritesDefaults ==
    last.cmd = "init" =>
        /\ last.exit = 0
        /\ last.target = last.dest
        /\ fs[last.dest].exists
        /\ WrittenDoc = DocOf({ <<UvPath \o <<"package">>, Bool("true")>>,
                                <<UvPath \o <<"resolution">>, Str("highest")>> })

\* C8 witness: init overwrote a destination that held another document.
C8_Witness ==
    /\ last.cmd = "init"
    /\ last.pre[last.dest].exists
    /\ last.pre[last.dest] # fs[last.dest]

\* C9: after a successful set of an aliased field by either spelling, the
\* written tool.uv holds the field under one spelling only, and the value
\* the validated model holds for it is the value set.
C9_AliasOneValue ==
    \A f \in {f \in ToolUvFields : f.alias # f.name} :
        (SetDone /\ last.key \in {f.name, f.alias}) =>
            LET w == Sub(WrittenDoc, UvPath)
            IN  /\ ~(Has(w, <<f.name>>) /\ Has(w, <<f.alias>>))
                /\ Exposed(w, f) = Str(last.value)

\* C10: every document load_any reads from a file of the file system is
\* written by dump_toml, and loading the TOML file written gives it back.
C10_RoundTrip ==
    \A p \in Paths :
        LET ld == LoadAny(fs, p)
            w == TomlDumps(ld.doc)
        IN  (fs[p].exists /\ ld.ok) => (w.ok /\ TomlParse(w.text) = [ok |-> TRUE, doc |-> ld.doc])

====
